---- MODULE Spec2Model ----
(***************************************************************************)
(* Kubernetes SecretStore of pkg/connection (interfaces.go, package        *)
(* kubernetes): ReadKeyValues, WriteKeyValues and DeleteKeyValues against  *)
(* a cluster client holding Secret resources.                              *)
(*                                                                         *)
(* Every handler is a sequence of cluster calls.  Each cluster call is one *)
(* atomic step (operators WriteStep, DeleteStep, ReadStep).  The sequential*)
(* specification Spec runs a handler's steps to completion in one action;  *)
(* the concurrent specification SpecWW interleaves the steps of two        *)
(* callers.                                                                *)
(***************************************************************************)
EXTENDS Integers, Sequences, FiniteSets, TLC

\* ------------------------------------------------------------------ bounds
NumOwners == 2
NumValues == 2
MaxAttempts == 2

Owners == 1..NumOwners             \* i.Owner.UID
Values == 1..NumValues             \* opaque byte strings
Keys == {"user", "pass"}
Name1 == "ns1/db-creds"            \* (i.Scope, i.Name)
Instances == {Name1}
Procs == {"p1", "p2"}

EmptyKV == [k \in {} |-> 0]
KeyValues == UNION {[D -> Values] : D \in SUBSET Keys}

SecretTypeConnection == "connection.crossplane.io/v1alpha1"

\* ------------------------------------------------------------------ errors
errGetSecret == "cannot get secret"
errDeleteSecret == "cannot delete secret"
errUpdateSecret == "cannot update secret"
errCreateOrUpdateSecret == "cannot create or update connection applicator"
errExtractKubernetesAuthCreds == "cannot extract kubernetes auth credentials"

NilErr == [cause |-> "nil", msg |-> ""]
ApiErr(c) == [cause |-> c, msg |-> ""]

\* errors.Wrap / errors.Wrapf: nil stays nil, otherwise the cause is kept
\* and the message is prefixed.
Wrap(e, m) == IF e = NilErr THEN NilErr ELSE [cause |-> e.cause, msg |-> m]

IsNotFound(e) == e.cause = "NotFound"

\* resource.IsAPIErrorWrapped: the cause is an error of the API server.
IsAPIErrorWrapped(e) ==
    e.cause \in {"NotFound", "AlreadyExists", "Conflict", "ServerTimeout"}

\* mutants of ShouldRetry: every error is retried; no error is retried
ShouldRetry_Always(e) == TRUE
ShouldRetry_Never(e) == FALSE

\* The retry predicate NewSecretStore gives the applicator.
ShouldRetry(e) == IsAPIErrorWrapped(e)

\* ------------------------------------------------------------------ state
VARIABLES
    secrets,        \* the cluster: Instances -> Secret resource or Absent
    remoteCluster,  \* SecretStore.remoteCluster
    procs,          \* concurrent callers: Procs -> call in progress
    last,           \* the last completed call of the sequential caller
    written,        \* ghost: per instance, key -> value of the keys whose
                    \* most recent successful operation was a write
    factory,        \* NewSecretStore: its arguments and what it returned
    began           \* ghost: per caller, the resource as it was when the
                    \* call in progress began, and the cluster calls of
                    \* that call that failed

vars == <<secrets, remoteCluster, procs, last, written, factory, began>>

\* &corev1.Secret{}
EmptySecret == [present |-> FALSE, data |-> EmptyKV, owners |-> <<>>,
                type |-> "", rv |-> 0]
Absent == EmptySecret

\* ------------------------------------------------------------------ client
\* client.Get: the stored resource, or NotFound and the object untouched.
ClientGet(S, n) ==
    IF S[n].present THEN [err |-> NilErr, obj |-> S[n]]
    ELSE [err |-> ApiErr("NotFound"), obj |-> EmptySecret]

\* client.Create
ClientCreate(S, n, obj, rv) ==
    IF S[n].present THEN [err |-> ApiErr("AlreadyExists"), S |-> S]
    ELSE [err |-> NilErr,
          S |-> [S EXCEPT ![n] = [present |-> TRUE, data |-> obj.data,
                                  owners |-> obj.owners, type |-> obj.type,
                                  rv |-> rv]]]

\* client.Update: replaces the whole resource; the resourceVersion the
\* caller read must still be the stored one.
ClientUpdate(S, n, obj, rv) ==
    IF ~S[n].present THEN [err |-> ApiErr("NotFound"), S |-> S]
    ELSE IF S[n].rv # obj.rv THEN [err |-> ApiErr("Conflict"), S |-> S]
    ELSE [err |-> NilErr,
          S |-> [S EXCEPT ![n] = [present |-> TRUE, data |-> obj.data,
                                  owners |-> obj.owners, type |-> obj.type,
                                  rv |-> rv]]]

\* mutant of ClientDelete: every resource of the store is removed
ClientDelete_Every(S, n) ==
    IF ~S[n].present THEN [err |-> ApiErr("NotFound"), S |-> S]
    ELSE [err |-> NilErr, S |-> [m \in DOMAIN S |-> Absent]]

\* client.Delete: by name, with no resourceVersion precondition.
ClientDelete(S, n) ==
    IF ~S[n].present THEN [err |-> ApiErr("NotFound"), S |-> S]
    ELSE [err |-> NilErr, S |-> [S EXCEPT ![n] = Absent]]

\* Data of the stored resource overridden by the keys of kv.
MergeData(old, kv) ==
    [k \in (DOMAIN old) \cup (DOMAIN kv) |->
        IF k \in DOMAIN kv THEN kv[k] ELSE old[k]]

\* client.Patch issued by the patching applicator: the server merges the
\* desired resource into the stored one.
ClientPatch(S, n, desired, rv) ==
    IF ~S[n].present THEN [err |-> ApiErr("NotFound"), S |-> S]
    ELSE [err |-> NilErr,
          S |-> [S EXCEPT ![n] = [present |-> TRUE,
                                  data |-> MergeData(S[n].data, desired.data),
                                  owners |-> desired.owners,
                                  type |-> desired.type,
                                  rv |-> rv]]]

\* -------------------------------------------------------------- call state
\* A call in progress: its arguments, its position, the object it holds.
NewCall(op, n, owner, kv) ==
    [op |-> op, name |-> n, owner |-> owner, kv |-> kv, pc |-> "Get",
     obj |-> EmptySecret, found |-> FALSE, attempts |-> 0,
     err |-> NilErr, ret |-> EmptyKV, calls |-> {}, checked |-> {},
     fault |-> FALSE]

Idle == [op |-> "idle", name |-> Name1, owner |-> 1, kv |-> EmptyKV,
         pc |-> "done", obj |-> EmptySecret, found |-> FALSE, attempts |-> 0,
         err |-> NilErr, ret |-> EmptyKV, calls |-> {}, checked |-> {},
         fault |-> FALSE]

\* A cluster call made while st.fault is set fails: the API server answers
\* with a transient error and applies nothing.
GetResult(st, r) ==
    IF st.fault THEN [err |-> ApiErr("ServerTimeout"), obj |-> EmptySecret]
    ELSE r
CallResult(st, S, r) ==
    IF st.fault THEN [err |-> ApiErr("ServerTimeout"), S |-> S] ELSE r

\* A resourceVersion is an opaque token that Update compares for equality
\* with the one the caller read.  A mutation by caller self stores a token
\* that no other call in progress holds in its copy of the resource.
HeldRV(n, self) ==
    {procs[q].obj.rv : q \in {x \in Procs \ {self} :
        procs[x].pc # "done" /\ procs[x].name = n /\ procs[x].found}}

FreshRV(n, self) ==
    CHOOSE r \in 0..Cardinality(Procs) :
        /\ r \notin HeldRV(n, self)
        /\ \A x \in 0..Cardinality(Procs) : x \notin HeldRV(n, self) => r <= x

\* ------------------------------------------------------------ WriteKeyValues
\* mutants of Desired: Data left out; OwnerReferences left out
Desired_NoData(st) ==
    [data |-> EmptyKV, owners |-> <<st.owner>>, type |-> SecretTypeConnection]
Desired_NoOwner(st) ==
    [data |-> st.kv, owners |-> <<>>, type |-> SecretTypeConnection]

\* The Secret that WriteKeyValues builds from the instance and kv.
Desired(st) ==
    [data |-> st.kv, owners |-> <<st.owner>>, type |-> SecretTypeConnection]

\* mutants of WriteOptions: the mode test dropped, either way
WriteOptions_Never(st, remote) == {}
WriteOptions_Always(st, remote) == {st.owner}

\* The apply options WriteKeyValues passes: the UIDs that must control the
\* existing secret (ConnectionSecretMustBeControllableBy(i.Owner.UID)) in
\* local-cluster mode, none in remote-cluster mode.
WriteOptions(st, remote) ==
    IF ~remote THEN {st.owner} ELSE {}

\* resource.ConnectionSecretMustBeControllableBy(uid) on the existing secret.
ConnectionSecretMustBeControllableBy(uid, current) ==
    IF \E x \in DOMAIN current.owners : current.owners[x] = uid
    THEN NilErr
    ELSE [cause |-> "OwnershipConflict", msg |-> ""]

\* The first failing precondition, or nil.
CheckOptions(opts, current) ==
    IF \E u \in opts : ConnectionSecretMustBeControllableBy(u, current) # NilErr
    THEN [cause |-> "OwnershipConflict", msg |-> ""]
    ELSE NilErr

\* The retry wrapper: an API error is retried until the budget is spent,
\* any other outcome ends the call.
ApplyEnd(S, st, e, call) ==
    IF e # NilErr /\ ShouldRetry(e) /\ st.attempts + 1 < MaxAttempts
    THEN [S |-> S,
          st |-> [st EXCEPT !.pc = "Get", !.attempts = @ + 1,
                            !.obj = EmptySecret, !.found = FALSE,
                            !.calls = @ \cup call]]
    ELSE [S |-> S,
          st |-> [st EXCEPT !.pc = "done", !.attempts = @ + 1,
                            !.obj = EmptySecret, !.found = FALSE,
                            !.err = Wrap(e, errCreateOrUpdateSecret),
                            !.calls = @ \cup call]]

\* Applicator.Apply, first half of an attempt: fetch the current resource;
\* an error other than NotFound ends the attempt.
ApplyGet(S, st) ==
    LET g == GetResult(st, ClientGet(S, st.name)) IN
    IF g.err # NilErr /\ ~IsNotFound(g.err)
    THEN ApplyEnd(S, st, g.err, {"Get"})
    ELSE [S |-> S,
          st |-> [st EXCEPT !.pc = "Commit", !.obj = g.obj,
                            !.found = ~IsNotFound(g.err),
                            !.calls = @ \cup {"Get"}]]

\* Applicator.Apply, second half of an attempt: create the resource when it
\* was absent, otherwise evaluate the preconditions and patch.
ApplyCommit(S, st, opts, rv) ==
    IF ~st.found
    THEN LET r == CallResult(st, S,
                             ClientCreate(S, st.name, Desired(st), rv)) IN
         ApplyEnd(r.S, st, r.err, {"Create"})
    ELSE LET pe == CheckOptions(opts, st.obj) IN
         LET sc == [st EXCEPT !.checked = @ \cup opts] IN
         IF pe # NilErr
         THEN ApplyEnd(S, sc, pe, {})
         ELSE LET r == CallResult(st, S,
                                  ClientPatch(S, st.name, Desired(st), rv)) IN
              ApplyEnd(r.S, sc, r.err, {"Patch"})

WriteStep(S, st, remote, rv) ==
    IF st.pc = "Get" THEN ApplyGet(S, st)
    ELSE ApplyCommit(S, st, WriteOptions(st, remote), rv)

\* ----------------------------------------------------------- DeleteKeyValues
\* mutant of RemoveKeys: a key is removed only when kv holds its stored value
RemoveKeys_ByValue(data, kv) ==
    [k \in {x \in DOMAIN data : ~(x \in DOMAIN kv /\ kv[x] = data[x])} |->
        data[k]]

\* for k := range kv { delete(s.Data, k) }
RemoveKeys(data, kv) ==
    [k \in (DOMAIN data) \ (DOMAIN kv) |-> data[k]]

\* mutant of DeleteGet: every error of Get is taken for NotFound
DeleteGet_SwallowsErrors(S, st) ==
    LET g == GetResult(st, ClientGet(S, st.name)) IN
    IF g.err # NilErr
    THEN [S |-> S, st |-> [st EXCEPT !.pc = "done", !.err = NilErr,
                                     !.calls = @ \cup {"Get"}]]
    ELSE [S |-> S, st |-> [st EXCEPT !.pc = "Mutate", !.obj = g.obj,
                                     !.found = TRUE,
                                     !.calls = @ \cup {"Get"}]]

\* mutant of DeleteGet: NotFound is returned like any other error
DeleteGet_NotFoundIsError(S, st) ==
    LET g == GetResult(st, ClientGet(S, st.name)) IN
    IF g.err # NilErr
    THEN [S |-> S, st |-> [st EXCEPT !.pc = "done",
                                     !.err = Wrap(g.err, errGetSecret),
                                     !.calls = @ \cup {"Get"}]]
    ELSE [S |-> S, st |-> [st EXCEPT !.pc = "Mutate", !.obj = g.obj,
                                     !.found = TRUE,
                                     !.calls = @ \cup {"Get"}]]

\* Get, with NotFound turned into success and any other error returned.
DeleteGet(S, st) ==
    LET g == GetResult(st, ClientGet(S, st.name)) IN
    IF IsNotFound(g.err)
    THEN [S |-> S, st |-> [st EXCEPT !.pc = "done", !.err = NilErr,
                                     !.calls = @ \cup {"Get"}]]
    ELSE IF g.err # NilErr
    THEN [S |-> S, st |-> [st EXCEPT !.pc = "done",
                                     !.err = Wrap(g.err, errGetSecret),
                                     !.calls = @ \cup {"Get"}]]
    ELSE [S |-> S, st |-> [st EXCEPT !.pc = "Mutate", !.obj = g.obj,
                                     !.found = TRUE,
                                     !.calls = @ \cup {"Get"}]]

\* mutant of DeleteMutate: the remaining keys are always stored by Update
DeleteMutate_AlwaysUpdate(S, st, rv) ==
    LET rem == RemoveKeys(st.obj.data, st.kv)
        r == CallResult(st, S, ClientUpdate(S, st.name,
                                   [st.obj EXCEPT !.data = rem], rv)) IN
    [S |-> r.S,
     st |-> [st EXCEPT !.pc = "done", !.obj = EmptySecret, !.found = FALSE,
                       !.err = Wrap(r.err, errUpdateSecret),
                       !.calls = @ \cup {"Update"}]]

\* mutant of DeleteMutate: the resource is always deleted
DeleteMutate_AlwaysDelete(S, st, rv) ==
    LET r == CallResult(st, S, ClientDelete(S, st.name)) IN
    [S |-> r.S,
     st |-> [st EXCEPT !.pc = "done", !.obj = EmptySecret, !.found = FALSE,
                       !.err = Wrap(r.err, errDeleteSecret),
                       !.calls = @ \cup {"Delete"}]]

\* mutant of DeleteMutate: a caller that does not own the secret is refused
DeleteMutate_OwnerChecked(S, st, rv) ==
    LET rem == RemoveKeys(st.obj.data, st.kv) IN
    IF \A x \in DOMAIN st.obj.owners : st.obj.owners[x] # st.owner
    THEN [S |-> S,
          st |-> [st EXCEPT !.pc = "done", !.obj = EmptySecret,
                            !.found = FALSE,
                            !.err = [cause |-> "OwnershipConflict",
                                     msg |-> errDeleteSecret]]]
    ELSE IF Cardinality(DOMAIN rem) > 0
    THEN LET r == CallResult(st, S, ClientUpdate(S, st.name,
                                 [st.obj EXCEPT !.data = rem], rv)) IN
         [S |-> r.S,
          st |-> [st EXCEPT !.pc = "done", !.obj = EmptySecret,
                            !.found = FALSE,
                            !.err = Wrap(r.err, errUpdateSecret),
                            !.calls = @ \cup {"Update"}]]
    ELSE LET r == CallResult(st, S, ClientDelete(S, st.name)) IN
         [S |-> r.S,
          st |-> [st EXCEPT !.pc = "done", !.obj = EmptySecret,
                            !.found = FALSE,
                            !.err = Wrap(r.err, errDeleteSecret),
                            !.calls = @ \cup {"Delete"}]]

\* Update with the remaining keys when some are left, else Delete.
DeleteMutate(S, st, rv) ==
    LET rem == RemoveKeys(st.obj.data, st.kv) IN
    IF Cardinality(DOMAIN rem) > 0
    THEN LET r == CallResult(st, S, ClientUpdate(S, st.name,
                                 [st.obj EXCEPT !.data = rem], rv)) IN
         [S |-> r.S,
          st |-> [st EXCEPT !.pc = "done", !.obj = EmptySecret,
                            !.found = FALSE,
                            !.err = Wrap(r.err, errUpdateSecret),
                            !.calls = @ \cup {"Update"}]]
    ELSE LET r == CallResult(st, S, ClientDelete(S, st.name)) IN
         [S |-> r.S,
          st |-> [st EXCEPT !.pc = "done", !.obj = EmptySecret,
                            !.found = FALSE,
                            !.err = Wrap(r.err, errDeleteSecret),
                            !.calls = @ \cup {"Delete"}]]

DeleteStep(S, st, rv) ==
    IF st.pc = "Get" THEN DeleteGet(S, st) ELSE DeleteMutate(S, st, rv)

\* ------------------------------------------------------------- ReadKeyValues
\* mutant of ReadStep: s.Data is read before Get fills s
ReadStep_DataBeforeGet(S, st) ==
    LET g == GetResult(st, ClientGet(S, st.name)) IN
    [S |-> S,
     st |-> [st EXCEPT !.pc = "done", !.ret = EmptySecret.data,
                       !.err = Wrap(g.err, errGetSecret),
                       !.calls = @ \cup {"Get"}]]

\* return s.Data, Wrapf(Get(..., s)): the Data field is read once Get has
\* filled s (the compiler evaluates the call before the field load).
ReadStep(S, st) ==
    LET g == GetResult(st, ClientGet(S, st.name)) IN
    [S |-> S,
     st |-> [st EXCEPT !.pc = "done", !.ret = g.obj.data,
                       !.err = Wrap(g.err, errGetSecret),
                       !.calls = @ \cup {"Get"}]]

\* ------------------------------------------------------------------- running
Step(S, st, remote, rv) ==
    CASE st.op = "write" -> WriteStep(S, st, remote, rv)
      [] st.op = "delete" -> DeleteStep(S, st, rv)
      [] OTHER -> ReadStep(S, st)

\* A handler run by a caller that nothing interleaves with.
RECURSIVE Run(_, _, _, _)
Run(S, st, remote, rv) ==
    IF st.pc = "done" THEN [S |-> S, st |-> st]
    ELSE LET r == Step(S, st, remote, rv) IN Run(r.S, r.st, remote, rv)

\* ghost bookkeeping of the keys written and deleted, kept apart from the
\* operators of the store
Override(old, kv) ==
    [k \in (DOMAIN old) \cup (DOMAIN kv) |->
        IF k \in DOMAIN kv THEN kv[k] ELSE old[k]]
Without(old, kv) ==
    [k \in {x \in DOMAIN old : x \notin DOMAIN kv} |-> old[k]]

Record(n, st) ==
    IF st.err # NilErr THEN written
    ELSE IF st.op = "write" THEN [written EXCEPT ![n] = Override(@, st.kv)]
    ELSE IF st.op = "delete" THEN [written EXCEPT ![n] = Without(@, st.kv)]
    ELSE written

\* ghost: whether the call before the last one was a successful write that
\* found the resource absent, and whether the last call repeats the
\* arguments of the call before it
NoPrior == FALSE
Summary(l) ==
    l.call.op = "write" /\ l.call.err = NilErr /\ ~l.pre.present
SameArgs(a, b) ==
    a.name = b.name /\ a.owner = b.owner /\ a.kv = b.kv

\* ------------------------------------------------------------ NewSecretStore
\* v1.SecretStoreConfig: no Kubernetes section, or one naming a credential
\* source.
Configs ==
    {[Kubernetes |-> k, DefaultScope |-> "ns1"] : k \in {"nil", "auth"}}

NoStore ==
    [err |-> NilErr, built |-> FALSE, client |-> "none",
     remoteCluster |-> FALSE, defaultNamespace |-> "",
     called |-> <<>>]

\* mutant of NewSecretStore: remoteCluster is not set for the remote client
NewSecretStore_RemoteFlagUnset(cfg, extractOk, clientOk) ==
    IF cfg.Kubernetes = "nil"
    THEN [err |-> NilErr, built |-> TRUE, client |-> "local",
          remoteCluster |-> FALSE, defaultNamespace |-> cfg.DefaultScope,
          called |-> <<>>]
    ELSE IF ~extractOk
    THEN [NoStore EXCEPT
            !.err = [cause |-> "extract", msg |-> errExtractKubernetesAuthCreds],
            !.called = <<"CommonCredentialExtractor">>]
    ELSE IF ~clientOk
    THEN [NoStore EXCEPT
            !.err = [cause |-> "client", msg |-> errExtractKubernetesAuthCreds],
            !.called = <<"CommonCredentialExtractor", "clientForKubeconfig">>]
    ELSE [err |-> NilErr, built |-> TRUE, client |-> "remote",
          remoteCluster |-> FALSE, defaultNamespace |-> cfg.DefaultScope,
          called |-> <<"CommonCredentialExtractor", "clientForKubeconfig">>]

\* NewSecretStore(ctx, local, cfg); extractOk and clientOk are the outcomes
\* of resource.CommonCredentialExtractor and clientForKubeconfig.
NewSecretStore(cfg, extractOk, clientOk) ==
    IF cfg.Kubernetes = "nil"
    THEN [err |-> NilErr, built |-> TRUE, client |-> "local",
          remoteCluster |-> FALSE, defaultNamespace |-> cfg.DefaultScope,
          called |-> <<>>]
    ELSE IF ~extractOk
    THEN [NoStore EXCEPT
            !.err = [cause |-> "extract", msg |-> errExtractKubernetesAuthCreds],
            !.called = <<"CommonCredentialExtractor">>]
    ELSE IF ~clientOk
    THEN [NoStore EXCEPT
            !.err = [cause |-> "client", msg |-> errExtractKubernetesAuthCreds],
            !.called = <<"CommonCredentialExtractor", "clientForKubeconfig">>]
    ELSE [err |-> NilErr, built |-> TRUE, client |-> "remote",
          remoteCluster |-> TRUE, defaultNamespace |-> cfg.DefaultScope,
          called |-> <<"CommonCredentialExtractor", "clientForKubeconfig">>]

\* the factory once NewSecretStore has returned
Constructed(cfg, extractOk, clientOk) ==
    [cfg |-> cfg, extractOk |-> extractOk, clientOk |-> clientOk,
     returned |-> TRUE, out |-> NewSecretStore(cfg, extractOk, clientOk)]

NotConstructed ==
    [cfg |-> [Kubernetes |-> "nil", DefaultScope |-> "ns1"],
     extractOk |-> TRUE, clientOk |-> TRUE, returned |-> FALSE,
     out |-> NoStore]

NoCall == [pre |-> Absent, faults |-> 0]

\* ------------------------------------------------- sequential specification
\* A store has been constructed, for the local or for a remote cluster.
Init ==
    /\ secrets = [n \in Instances |-> Absent]
    /\ factory \in {Constructed(c, TRUE, TRUE) : c \in Configs}
    /\ remoteCluster = factory.out.remoteCluster
    /\ began = [p \in Procs |-> NoCall]
    /\ procs = [p \in Procs |-> Idle]
    /\ last = [call |-> Idle, pre |-> Absent, prior |-> NoPrior,
               repeat |-> FALSE]
    /\ written = [n \in Instances |-> EmptyKV]

\* The handler op of the sequential caller, from entry to return.
Call(op, n, o, kv) ==
    Run(secrets, NewCall(op, n, o, kv), remoteCluster, FreshRV(n, "caller"))

\* ghost: the record of the call that has just returned
Log(n, st) ==
    [call |-> st, pre |-> secrets[n], prior |-> Summary(last),
     repeat |-> SameArgs(last.call, st)]

WriteKeyValues ==
    \E n \in Instances, o \in Owners, kv \in KeyValues :
        LET r == Call("write", n, o, kv) IN
        /\ secrets' = r.S
        /\ last' = Log(n, r.st)
        /\ written' = Record(n, r.st)
        /\ UNCHANGED <<remoteCluster, procs, factory, began>>

DeleteKeyValues ==
    \E n \in Instances, o \in Owners, kv \in KeyValues :
        LET r == Call("delete", n, o, kv) IN
        /\ secrets' = r.S
        /\ last' = Log(n, r.st)
        /\ written' = Record(n, r.st)
        /\ UNCHANGED <<remoteCluster, procs, factory, began>>

ReadKeyValues ==
    \E n \in Instances, o \in Owners :
        LET r == Call("read", n, o, EmptyKV) IN
        /\ secrets' = r.S
        /\ last' = Log(n, r.st)
        /\ written' = Record(n, r.st)
        /\ UNCHANGED <<remoteCluster, procs, factory, began>>

Next == WriteKeyValues \/ DeleteKeyValues \/ ReadKeyValues

Spec == Init /\ [][Next]_vars

\* ------------------------------------------------------------------ claims
LastIs(op) == last.call.op = op
LastOk == last.call.err = NilErr
LastName == last.call.name
Stored == secrets[last.call.name]
Disjoint(a, b) == (DOMAIN a) \cap (DOMAIN b) = {}
\* what a ReadKeyValues of the instance of the last call would return now
ReadNow(S, l) == ReadStep(S, NewCall("read", l.call.name, l.call.owner, EmptyKV)).st

\* C1: a successful WriteKeyValues leaves the resource present with Data
\* equal to the previous Data (none when the resource was absent) overridden
\* by kv; and when a successful write of kv1 on an absent resource is followed
\* by a successful write of kv2 with disjoint keys, the stored Data, and what
\* ReadKeyValues returns, is exactly the union of kv1 and kv2.
C1_WriteMerges ==
    [][ (last'.call.op = "write" /\ last'.call.err = NilErr) =>
          LET n == last'.call.name IN
          /\ secrets'[n].present
          /\ secrets'[n].data = Override(last'.pre.data, last'.call.kv)
          /\ (/\ last.call.op = "write" /\ last.call.err = NilErr
              /\ ~last.pre.present
              /\ last.call.name = n
              /\ Disjoint(last.call.kv, last'.call.kv))
             => /\ secrets'[n].data = Override(last.call.kv, last'.call.kv)
                /\ DOMAIN secrets'[n].data
                     = (DOMAIN last.call.kv) \cup (DOMAIN last'.call.kv)
                /\ ReadNow(secrets', last').err = NilErr
                /\ ReadNow(secrets', last').ret
                     = Override(last.call.kv, last'.call.kv) ]_vars

\* C1 witness: a second successful write, of a key the first write (made on
\* the absent resource) did not write, has left both keys stored.
C1_Witness ==
    /\ LastIs("write") /\ LastOk
    /\ last.prior
    /\ last.call.kv # EmptyKV /\ last.pre.data # EmptyKV
    /\ Disjoint(last.pre.data, last.call.kv)
    /\ DOMAIN Stored.data = Keys

\* C2: in local-cluster mode a write by an owner other than the one the
\* existing resource is owned by returns OwnershipConflict and leaves the
\* resource (Data, OwnerReferences) as it was.
C2_LocalOwnershipConflict ==
    (/\ ~remoteCluster /\ LastIs("write") /\ last.pre.present
     /\ \A x \in DOMAIN last.pre.owners : last.pre.owners[x] # last.call.owner)
    => /\ last.call.err.cause = "OwnershipConflict"
       /\ Stored = last.pre

\* C2 witness: such a write, of keys that would have changed the Data.
C2_Witness ==
    /\ ~remoteCluster /\ LastIs("write") /\ last.pre.present
    /\ last.pre.owners # <<>>
    /\ \A x \in DOMAIN last.pre.owners : last.pre.owners[x] # last.call.owner
    /\ Override(last.pre.data, last.call.kv) # last.pre.data
    /\ ~LastOk

\* C3: in remote-cluster mode a write by an owner other than the one the
\* existing resource refers to succeeds, evaluates no precondition and merges
\* kv into the stored Data.
C3_RemoteNoPrecondition ==
    (/\ remoteCluster /\ LastIs("write") /\ last.pre.present
     /\ \A x \in DOMAIN last.pre.owners : last.pre.owners[x] # last.call.owner)
    => /\ LastOk
       /\ last.call.checked = {}
       /\ Stored.present
       /\ Stored.data = Override(last.pre.data, last.call.kv)

\* C3 witness: such a write that overwrote one key and kept another.
C3_Witness ==
    /\ remoteCluster /\ LastIs("write") /\ last.pre.present
    /\ last.pre.owners # <<>>
    /\ \A x \in DOMAIN last.pre.owners : last.pre.owners[x] # last.call.owner
    /\ LastOk
    /\ \E k \in DOMAIN last.call.kv :
          k \in DOMAIN last.pre.data /\ last.pre.data[k] # last.call.kv[k]
    /\ \E k \in DOMAIN last.pre.data : k \notin DOMAIN last.call.kv

\* C4: a successful delete on a present resource removes exactly the keys of
\* kv whatever values kv gives them, keeps every other key with its value
\* and, when keys remain, stores them: the resource stays present, otherwise
\* as it was, and a read returns the previous Data minus the keys of kv.
C4_DeleteRemovesKeys ==
    (LastIs("delete") /\ LastOk /\ last.pre.present) =>
        LET rem == Without(last.pre.data, last.call.kv) IN
        /\ Stored.present => Stored.data = rem
        /\ rem # EmptyKV =>
              /\ Stored.present
              /\ Stored.owners = last.pre.owners
              /\ Stored.type = last.pre.type
              /\ ReadNow(secrets, last).err = NilErr
              /\ ReadNow(secrets, last).ret = rem

\* C4 witness: a delete whose kv gave a stale value for the key it removed,
\* with another key left stored.
C4_Witness ==
    /\ LastIs("delete") /\ LastOk /\ last.pre.present
    /\ \E k \in DOMAIN last.call.kv :
          k \in DOMAIN last.pre.data /\ last.pre.data[k] # last.call.kv[k]
    /\ Stored.present /\ Stored.data # EmptyKV
    /\ Stored.data = Without(last.pre.data, last.call.kv)

\* C5: a write of kv on an absent resource followed by a delete of the same
\* kv leaves the resource absent, and a read then fails with NotFound.
C5_WriteThenDeleteIsAbsent ==
    [][ (/\ last.call.op = "write" /\ last.call.err = NilErr
         /\ ~last.pre.present
         /\ last'.call.op = "delete"
         /\ last'.call.name = last.call.name
         /\ last'.call.kv = last.call.kv)
        => /\ last'.call.err = NilErr
           /\ ~secrets'[last.call.name].present
           /\ ReadNow(secrets', last').err.cause = "NotFound" ]_vars

\* C5 witness: the delete of a non-empty kv that the previous call wrote on
\* the absent resource has removed the resource.
C5_Witness ==
    /\ LastIs("delete") /\ LastOk
    /\ last.prior
    /\ last.repeat
    /\ last.call.kv # EmptyKV
    /\ last.pre.present /\ last.pre.data = last.call.kv
    /\ ~Stored.present

\* C6: a delete on an absent resource returns nil, makes no Update, Create
\* or Delete call, and leaves the resource absent.
C6_DeleteAbsentIsNoop ==
    (LastIs("delete") /\ ~last.pre.present) =>
        /\ LastOk
        /\ last.call.calls \cap {"Update", "Create", "Delete", "Patch"} = {}
        /\ Stored = Absent

\* C6 witness: a delete of some keys on the absent resource has returned.
C6_Witness ==
    /\ LastIs("delete") /\ ~last.pre.present
    /\ last.call.kv # EmptyKV
    /\ last.call.calls = {"Get"}

\* C7: a write that repeats the arguments of the write before it returns the
\* same result and leaves Data and OwnerReferences as the first left them
\* (so any number of repetitions ends as one call does).
C7_WriteIdempotent ==
    [][ (/\ last.call.op = "write" /\ last'.call.op = "write"
         /\ SameArgs(last.call, last'.call))
        => /\ last'.call.err = last.call.err
           /\ secrets'[last.call.name].present = secrets[last.call.name].present
           /\ secrets'[last.call.name].data = secrets[last.call.name].data
           /\ secrets'[last.call.name].owners = secrets[last.call.name].owners
      ]_vars

\* C7 witness: a successful write of some keys repeated on the resource that
\* the first call created.
C7_Witness ==
    /\ LastIs("write") /\ LastOk /\ last.repeat
    /\ last.prior
    /\ last.call.kv # EmptyKV
    /\ Stored = last.pre

\* C9: a read returns the stored Data and nil when the resource is present,
\* NotFound when it is absent, and leaves the store as it was.
C9_ReadReturnsData ==
    LastIs("read") =>
        /\ last.pre.present =>
              (last.call.err = NilErr /\ last.call.ret = last.pre.data)
        /\ ~last.pre.present => last.call.err.cause = "NotFound"
        /\ Stored = last.pre
        /\ last.call.calls = {"Get"}

\* C9 witness: a read of a resource that holds both keys.
C9_Witness ==
    /\ LastIs("read") /\ last.pre.present
    /\ DOMAIN last.pre.data = Keys
    /\ last.call.ret = last.pre.data

\* C10: the resource, when present, holds exactly the keys whose most recent
\* successful operation was a write, each with the value of that write.
C10_DataIsWrittenMinusDeleted ==
    \A n \in Instances :
        secrets[n].present => secrets[n].data = written[n]

\* C10 witness: after a delete removed a key that had been written, the
\* resource still holds another written key.
C10_Witness ==
    /\ LastIs("delete") /\ LastOk
    /\ DOMAIN last.call.kv \cap DOMAIN last.pre.data # {}
    /\ Stored.present /\ Stored.data # EmptyKV
    /\ Stored.data = written[LastName]

\* ------------------------------------- two concurrent writers (SpecWW)
\* The resources a sequence of calls can have left in the cluster.
StoredSecrets ==
    {Absent} \cup
    {[present |-> TRUE, data |-> d, owners |-> <<o>>,
      type |-> SecretTypeConnection, rv |-> 0] : d \in KeyValues, o \in Owners}

WriteCalls ==
    {NewCall("write", n, o, kv) : n \in Instances, o \in Owners, kv \in KeyValues}

\* Each caller has entered WriteKeyValues on the same instance; the two write
\* disjoint key sets.
InitWW ==
    /\ secrets \in [Instances -> StoredSecrets]
    /\ factory \in {Constructed(c, TRUE, TRUE) : c \in Configs}
    /\ remoteCluster = factory.out.remoteCluster
    /\ began = [p \in Procs |-> [pre |-> secrets[Name1], faults |-> 0]]
    /\ procs \in {f \in [Procs -> WriteCalls] :
                    \A p, q \in Procs :
                        p # q => /\ f[p].name = f[q].name
                                 /\ Disjoint(f[p].kv, f[q].kv)}
    /\ last = [call |-> Idle, pre |-> Absent, prior |-> NoPrior,
               repeat |-> FALSE]
    /\ written = [n \in Instances |-> EmptyKV]

ProcStep(p) ==
    LET r == Step(secrets, procs[p], remoteCluster, FreshRV(procs[p].name, p)) IN
    /\ secrets' = r.S
    /\ procs' = [procs EXCEPT ![p] = r.st]
    /\ UNCHANGED <<remoteCluster, last, written, factory, began>>

\* the applicator of caller p gets the resource
ApplyGetStep(p) ==
    procs[p].op = "write" /\ procs[p].pc = "Get" /\ ProcStep(p)

\* the applicator of caller p creates or patches the resource
ApplyCommitStep(p) ==
    procs[p].op = "write" /\ procs[p].pc = "Commit" /\ ProcStep(p)

NextWW == \E p \in Procs : ApplyGetStep(p) \/ ApplyCommitStep(p)

SpecWW == InitWW /\ [][NextWW]_vars

\* C8: once two concurrent writes of disjoint key sets to one instance have
\* both returned nil, the resource is present and holds every key of both
\* with the value written, whatever the interleaving of their steps.
C8_ConcurrentWritesKeepBoth ==
    (/\ \A p \in Procs : /\ procs[p].op = "write" /\ procs[p].pc = "done"
                         /\ procs[p].err = NilErr
     /\ \A p, q \in Procs :
            p # q => procs[p].name = procs[q].name
                     /\ Disjoint(procs[p].kv, procs[q].kv))
    => \A p \in Procs :
          /\ secrets[procs[p].name].present
          /\ \A k \in DOMAIN procs[p].kv :
                /\ k \in DOMAIN secrets[procs[p].name].data
                /\ secrets[procs[p].name].data[k] = procs[p].kv[k]

\* C8 witness: both writes found the resource absent, one lost the Create,
\* tried again, and both have returned nil with their keys stored.
C8_Witness ==
    /\ \A p \in Procs : /\ procs[p].op = "write" /\ procs[p].pc = "done"
                        /\ procs[p].err = NilErr
                        /\ procs[p].kv # EmptyKV
                        /\ "Create" \in procs[p].calls
    /\ \E p \in Procs : procs[p].attempts = 2 /\ "Patch" \in procs[p].calls
    /\ DOMAIN secrets[Name1].data = Keys

\* ------------------------------------ construction, then calls (SpecNew)
InitNew ==
    /\ secrets = [n \in Instances |-> Absent]
    /\ factory = NotConstructed
    /\ remoteCluster = FALSE
    /\ procs = [p \in Procs |-> Idle]
    /\ last = [call |-> Idle, pre |-> Absent, prior |-> NoPrior,
               repeat |-> FALSE]
    /\ written = [n \in Instances |-> EmptyKV]
    /\ began = [p \in Procs |-> NoCall]

\* NewSecretStore is called with some configuration; the credential
\* extractor and the client constructor succeed or fail.
Construct ==
    /\ ~factory.returned
    /\ \E cfg \in Configs, extractOk \in BOOLEAN, clientOk \in BOOLEAN :
          \* a collaborator that is not called has no outcome
          /\ cfg.Kubernetes = "nil" => (extractOk /\ clientOk)
          /\ ~extractOk => clientOk
          /\ factory' = Constructed(cfg, extractOk, clientOk)
          /\ remoteCluster' = NewSecretStore(cfg, extractOk, clientOk).remoteCluster
    /\ UNCHANGED <<secrets, procs, last, written, began>>

\* a call on the store that NewSecretStore returned
StoreCall == factory.out.built /\ Next

NextNew == Construct \/ StoreCall

SpecNew == InitNew /\ [][NextNew]_vars

\* C11: without a Kubernetes section NewSecretStore returns a store on the
\* local client with remoteCluster false and extracts nothing; with one it
\* extracts the credentials, builds the remote client and returns a store on
\* it with remoteCluster true; when the extraction or the client construction
\* fails it returns an error and no store, each collaborator having been
\* called at most once, and no call reaches the cluster.
C11_FactoryBinds ==
    factory.returned =>
        LET o == factory.out IN
        /\ factory.cfg.Kubernetes = "nil" =>
              /\ o.built /\ o.err = NilErr /\ o.client = "local"
              /\ ~o.remoteCluster /\ ~remoteCluster
              /\ o.called = <<>>
        /\ (factory.cfg.Kubernetes # "nil" /\ factory.extractOk
              /\ factory.clientOk) =>
              /\ o.built /\ o.err = NilErr /\ o.client = "remote"
              /\ o.remoteCluster /\ remoteCluster
              /\ o.called = <<"CommonCredentialExtractor", "clientForKubeconfig">>
        /\ (factory.cfg.Kubernetes # "nil" /\ ~factory.extractOk) =>
              /\ ~o.built /\ o.err # NilErr /\ o.client = "none"
              /\ o.called = <<"CommonCredentialExtractor">>
        /\ (factory.cfg.Kubernetes # "nil" /\ factory.extractOk
              /\ ~factory.clientOk) =>
              /\ ~o.built /\ o.err # NilErr /\ o.client = "none"
              /\ o.called = <<"CommonCredentialExtractor", "clientForKubeconfig">>
        /\ ~o.built => (last.call = Idle /\ secrets = [n \in Instances |-> Absent])
        /\ o.built => o.defaultNamespace = factory.cfg.DefaultScope

\* C11 witness: the credentials were extracted, the client could not be
\* built, and NewSecretStore returned the error and no store.
C11_Witness ==
    /\ factory.returned /\ factory.cfg.Kubernetes = "auth"
    /\ factory.extractOk /\ ~factory.clientOk
    /\ ~factory.out.built
    /\ factory.out.err.msg = errExtractKubernetesAuthCreds

\* ------------------------- a writer and a deleter, concurrently (SpecWD)
DeleteCalls ==
    {NewCall("delete", n, o, kv) : n \in Instances, o \in Owners, kv \in KeyValues}

\* Caller p1 has entered WriteKeyValues and caller p2 DeleteKeyValues on the
\* same instance, with disjoint key sets.
InitWD ==
    /\ secrets \in [Instances -> StoredSecrets]
    /\ factory \in {Constructed(c, TRUE, TRUE) : c \in Configs}
    /\ remoteCluster = factory.out.remoteCluster
    /\ procs \in {f \in [Procs -> WriteCalls \cup DeleteCalls] :
                    /\ f["p1"].op = "write" /\ f["p2"].op = "delete"
                    /\ f["p1"].name = f["p2"].name
                    /\ Disjoint(f["p1"].kv, f["p2"].kv)}
    /\ last = [call |-> Idle, pre |-> Absent, prior |-> NoPrior,
               repeat |-> FALSE]
    /\ written = [n \in Instances |-> EmptyKV]
    /\ began = [p \in Procs |-> [pre |-> secrets[Name1], faults |-> 0]]

\* DeleteKeyValues of caller p gets the resource
DeleteGetStep(p) ==
    procs[p].op = "delete" /\ procs[p].pc = "Get" /\ ProcStep(p)

\* DeleteKeyValues of caller p updates or deletes the resource
DeleteMutateStep(p) ==
    procs[p].op = "delete" /\ procs[p].pc = "Mutate" /\ ProcStep(p)

NextWD ==
    \E p \in Procs :
        \/ ApplyGetStep(p) \/ ApplyCommitStep(p)
        \/ DeleteGetStep(p) \/ DeleteMutateStep(p)

SpecWD == InitWD /\ [][NextWD]_vars

\* C12: once a write of kvW and a concurrent delete of disjoint keys kvD on
\* the same instance have both returned nil, every key of kvW is stored with
\* the value written: the delete has not discarded what the write stored.
C12_DeleteKeepsConcurrentWrite ==
    (/\ \A p \in Procs : procs[p].pc = "done" /\ procs[p].err = NilErr
     /\ procs["p1"].op = "write" /\ procs["p2"].op = "delete"
     /\ procs["p1"].name = procs["p2"].name
     /\ Disjoint(procs["p1"].kv, procs["p2"].kv))
    => \A k \in DOMAIN procs["p1"].kv :
          /\ secrets[procs["p1"].name].present
          /\ k \in DOMAIN secrets[procs["p1"].name].data
          /\ secrets[procs["p1"].name].data[k] = procs["p1"].kv[k]

\* --------------------------------------------- further claims on Spec
\* C13: the resource becomes present only by a successful write; it changes
\* while present only by a successful write or by a successful delete that
\* leaves Data non-empty; it becomes absent only by a successful delete whose
\* kv covers every stored key; a read, a failed write and a delete on the
\* absent resource leave it as it was.
C13_LegalTransitions ==
    [][ LET n == last'.call.name
            a == secrets[n]
            b == secrets'[n]
            c == last'.call
            ok == last'.call.err = NilErr IN
        /\ (~a.present /\ b.present) => (c.op = "write" /\ ok)
        /\ (a.present /\ b.present /\ a # b) =>
              \/ (c.op = "write" /\ ok)
              \/ (c.op = "delete" /\ ok /\ b.data # EmptyKV)
        /\ (a.present /\ ~b.present) =>
              (c.op = "delete" /\ ok /\ Without(a.data, c.kv) = EmptyKV)
        /\ (\/ c.op = "read"
            \/ (c.op = "write" /\ ~ok)
            \/ (c.op = "delete" /\ ~a.present)) => b = a
        /\ \A m \in Instances \ {n} : secrets'[m] = secrets[m] ]_vars

\* C13 witness: a delete naming both stored keys has made the resource
\* absent.
C13_Witness ==
    /\ LastIs("delete") /\ LastOk
    /\ last.pre.present /\ DOMAIN last.pre.data = Keys
    /\ DOMAIN last.call.kv = Keys
    /\ ~Stored.present

\* C17: after a successful write, in either mode, whether it created or
\* updated the resource, the OwnerReferences include the owner of the
\* instance and Type is the connection-secret type.
C17_WriteSetsOwnerAndType ==
    (LastIs("write") /\ LastOk) =>
        /\ Stored.present
        /\ \E x \in DOMAIN Stored.owners : Stored.owners[x] = last.call.owner
        /\ Stored.type = SecretTypeConnection

\* C17 witness: in remote-cluster mode a write has updated a resource that
\* referred to another owner.
C17_Witness ==
    /\ remoteCluster /\ LastIs("write") /\ LastOk
    /\ last.pre.present /\ last.pre.owners # <<>>
    /\ \A x \in DOMAIN last.pre.owners : last.pre.owners[x] # last.call.owner
    /\ \E x \in DOMAIN Stored.owners : Stored.owners[x] = last.call.owner
    /\ Stored.type = SecretTypeConnection

\* C19: a delete evaluates no precondition, and run from the same stored
\* resource with any other owner or in the other mode it returns the same
\* result and leaves the same resource; so on a present resource, whoever
\* owns it, the delete succeeds and removes the keys of kv.
C19_DeleteIgnoresOwnerAndMode ==
    LastIs("delete") =>
        /\ last.call.checked = {}
        /\ \A o2 \in Owners, r2 \in BOOLEAN :
              LET alt == Run([n \in Instances |-> last.pre],
                             NewCall("delete", LastName, o2, last.call.kv),
                             r2, FreshRV(LastName, "caller")) IN
              /\ alt.S[LastName] = Stored
              /\ alt.st.err = last.call.err
        /\ last.pre.present =>
              /\ LastOk
              /\ Stored.present => Stored.data = Without(last.pre.data, last.call.kv)
              /\ ~Stored.present => Without(last.pre.data, last.call.kv) = EmptyKV

\* C19 witness: in local-cluster mode a caller has deleted a resource that
\* another owner owns.
C19_Witness ==
    /\ ~remoteCluster /\ LastIs("delete") /\ LastOk
    /\ last.pre.present /\ last.pre.owners # <<>>
    /\ \A x \in DOMAIN last.pre.owners : last.pre.owners[x] # last.call.owner
    /\ last.pre.data # EmptyKV
    /\ ~Stored.present

\* C20: in every state reached by WriteKeyValues and DeleteKeyValues calls
\* with any kv, the empty map included, a present resource has non-empty
\* Data.
C20_NoEmptyShell ==
    \A n \in Instances : secrets[n].present => secrets[n].data # EmptyKV

\* ------------------------------------- one caller, failing cluster calls
\* One caller makes call after call on the store; any cluster call of a
\* call in progress may fail with a transient API error.
Caller == "p1"

InitF ==
    /\ secrets = [n \in Instances |-> Absent]
    /\ factory \in {Constructed(c, TRUE, TRUE) : c \in Configs}
    /\ remoteCluster = factory.out.remoteCluster
    /\ began = [p \in Procs |-> NoCall]
    /\ procs = [p \in Procs |-> Idle]
    /\ last = [call |-> Idle, pre |-> Absent, prior |-> NoPrior,
               repeat |-> FALSE]
    /\ written = [n \in Instances |-> EmptyKV]

\* the caller enters ReadKeyValues, WriteKeyValues or DeleteKeyValues
EnterCall ==
    /\ procs[Caller].pc = "done"
    /\ \E op \in {"read", "write", "delete"}, n \in Instances,
          o \in Owners, kv \in KeyValues :
          /\ op = "read" => kv = EmptyKV
          /\ procs' = [procs EXCEPT ![Caller] = NewCall(op, n, o, kv)]
          /\ began' = [began EXCEPT ![Caller] =
                          [pre |-> secrets[n], faults |-> 0]]
    /\ UNCHANGED <<secrets, remoteCluster, last, written, factory>>

\* whether the next step of st ends on a precondition, with no cluster call
PreconditionFails(st) ==
    /\ st.op = "write" /\ st.pc = "Commit" /\ st.found
    /\ CheckOptions(WriteOptions(st, remoteCluster), st.obj) # NilErr

\* the next step of the call in progress; its cluster call is answered
CallStep ==
    /\ procs[Caller].pc # "done"
    /\ ProcStep(Caller)

\* the next step of the call in progress; its cluster call fails
FaultyCallStep ==
    /\ procs[Caller].pc # "done"
    /\ ~PreconditionFails(procs[Caller])
    /\ LET r == Step(secrets, [procs[Caller] EXCEPT !.fault = TRUE],
                     remoteCluster, FreshRV(procs[Caller].name, Caller)) IN
       /\ secrets' = r.S
       /\ procs' = [procs EXCEPT ![Caller] = [r.st EXCEPT !.fault = FALSE]]
    /\ began' = [began EXCEPT ![Caller].faults = @ + 1]
    /\ UNCHANGED <<remoteCluster, last, written, factory>>

NextF == EnterCall \/ CallStep \/ FaultyCallStep

SpecF == InitF /\ [][NextF]_vars

\* C14: within one WriteKeyValues the applicator makes at most MaxAttempts
\* attempts; a failed ownership precondition ends the call at once with that
\* error; a transient API error starts another attempt while the budget
\* lasts and is returned, wrapped, when it is spent; an attempt that
\* succeeds ends the call with nil.
C14_ApplyBoundedRetry ==
    [][ LET st == procs[Caller]
            st2 == procs'[Caller]
            failed == began'[Caller].faults > began[Caller].faults IN
        (st.op = "write" /\ st.pc # "done") =>
          /\ st2.attempts <= MaxAttempts
          /\ (failed /\ st.attempts + 1 < MaxAttempts) =>
                /\ st2.pc = "Get" /\ st2.attempts = st.attempts + 1
                /\ st2.err = NilErr /\ secrets' = secrets
          /\ (failed /\ st.attempts + 1 >= MaxAttempts) =>
                /\ st2.pc = "done" /\ st2.attempts = MaxAttempts
                /\ st2.err = Wrap(ApiErr("ServerTimeout"),
                                  errCreateOrUpdateSecret)
                /\ began'[Caller].faults >= MaxAttempts
                /\ secrets' = secrets
          /\ PreconditionFails(st) =>
                /\ st2.pc = "done" /\ st2.attempts = st.attempts + 1
                /\ st2.err.cause = "OwnershipConflict"
                /\ st2.calls = st.calls /\ secrets' = secrets
          /\ (~failed /\ ~PreconditionFails(st) /\ st.pc = "Commit") =>
                /\ st2.pc = "done" /\ st2.err = NilErr
                /\ st2.attempts = st.attempts + 1 ]_vars

\* C14 witness: a write has returned the transient error after MaxAttempts
\* failed attempts.
C14_Witness ==
    /\ procs[Caller].op = "write" /\ procs[Caller].pc = "done"
    /\ procs[Caller].attempts = MaxAttempts
    /\ procs[Caller].err.cause = "ServerTimeout"
    /\ began[Caller].faults = MaxAttempts

\* C15: DeleteKeyValues returns a transient error of one of its cluster
\* calls only after MaxAttempts of them have failed.
C15_DeleteRetriesTransient ==
    (/\ procs[Caller].op = "delete" /\ procs[Caller].pc = "done"
     /\ procs[Caller].err.cause = "ServerTimeout")
    => began[Caller].faults >= MaxAttempts

\* C18: a call that returns an error has left the resource as it found it;
\* a DeleteKeyValues whose Get fails with an error other than NotFound
\* returns it wrapped and issues no Update or Delete; one whose Update or
\* Delete fails returns an error; no failure of a cluster call is turned
\* into success except NotFound on the Get of DeleteKeyValues.
C18_ErrorsReturnedNoMutation ==
    LET st == procs[Caller]
        pre == began[Caller].pre IN
    (st.pc = "done" /\ st.op # "idle") =>
        /\ st.err # NilErr => secrets[st.name] = pre
        /\ (st.op = "delete" /\ st.err.msg = errGetSecret) =>
              /\ st.err = Wrap(ApiErr("ServerTimeout"), errGetSecret)
              /\ st.calls = {"Get"}
        /\ (st.op = "delete" /\ began[Caller].faults > 0) =>
              /\ st.err # NilErr
              /\ st.err.msg \in {errGetSecret, errUpdateSecret, errDeleteSecret}
        /\ (st.op = "delete" /\ st.err = NilErr /\ ~pre.present) =>
              st.calls = {"Get"} /\ secrets[st.name] = pre
        /\ (st.op = "delete" /\ st.err = NilErr /\ pre.present) =>
              \/ "Update" \in st.calls
              \/ "Delete" \in st.calls

\* C18 witness: the Update of a delete has failed; the error is returned
\* and the resource is as it was.
C18_Witness ==
    /\ procs[Caller].op = "delete" /\ procs[Caller].pc = "done"
    /\ procs[Caller].err = Wrap(ApiErr("ServerTimeout"), errUpdateSecret)
    /\ began[Caller].pre.present
    /\ secrets[procs[Caller].name] = began[Caller].pre

\* ---------------------------------------- two callers, two instances
\* A second instance, in another namespace of the same cluster.
Name2 == "ns2/db-creds"
TwoInstances == {Name1, Name2}

\* the calls and the stored resources of this specification, with one value
OneValue(kv) == \A k \in DOMAIN kv : kv[k] = 1
CallsMI(n) ==
    {c \in WriteCalls \cup DeleteCalls : OneValue(c.kv)}
    \cup {NewCall("read", n, 1, EmptyKV)}

\* Caller p1 has entered a call for the instance Name1 and caller p2 a call
\* for the instance Name2, on the same store.
InitMI ==
    /\ secrets \in [TwoInstances -> {x \in StoredSecrets :
                                        x.present => OneValue(x.data)}]
    /\ factory \in {Constructed(c, TRUE, TRUE) : c \in Configs}
    /\ remoteCluster = factory.out.remoteCluster
    /\ \E c1 \in CallsMI(Name1), c2 \in CallsMI(Name2) :
          procs = [p \in Procs |->
                      IF p = "p1" THEN [c1 EXCEPT !.name = Name1]
                      ELSE [c2 EXCEPT !.name = Name2]]
    /\ began = [p \in Procs |-> [pre |-> secrets[procs[p].name], faults |-> 0]]
    /\ last = [call |-> Idle, pre |-> Absent, prior |-> NoPrior,
               repeat |-> FALSE]
    /\ written = [n \in Instances |-> EmptyKV]

\* ReadKeyValues of caller p gets the resource and returns
ReadGetStep(p) ==
    procs[p].op = "read" /\ procs[p].pc = "Get" /\ ProcStep(p)

NextMI ==
    \E p \in Procs :
        \/ ApplyGetStep(p) \/ ApplyCommitStep(p)
        \/ DeleteGetStep(p) \/ DeleteMutateStep(p)
        \/ ReadGetStep(p)

SpecMI == InitMI /\ [][NextMI]_vars

\* what a reader of the resource sees of it
Visible(x) ==
    [present |-> x.present, data |-> x.data, owners |-> x.owners]

\* the call of caller p run alone from the resource it began with, the
\* other instance being absent
Alone(p) ==
    LET st == procs[p] IN
    Run([m \in TwoInstances |-> IF m = st.name THEN began[p].pre ELSE Absent],
        NewCall(st.op, st.name, st.owner, st.kv), remoteCluster,
        FreshRV(st.name, p))

\* C16: under every interleaving of two calls for different instances, a
\* step changes the resource of an instance only when it is a step of the
\* call for that instance, and a call that has returned has the result, and
\* has left its resource in the state, of the same call run alone.
C16_InstancesIndependent ==
    /\ [](\A p \in Procs : procs[p].pc = "done" =>
            /\ procs[p].err = Alone(p).st.err
            /\ procs[p].ret = Alone(p).st.ret
            /\ Visible(secrets[procs[p].name])
                  = Visible(Alone(p).S[procs[p].name]))
    /\ [][\A m \in TwoInstances :
            Visible(secrets'[m]) # Visible(secrets[m]) =>
                \E p \in Procs : procs[p].name = m /\ procs'[p] # procs[p]]_vars

\* C16 witness: a write for Name1 and a delete for Name2 have both returned;
\* each has changed its own resource.
C16_Witness ==
    /\ \A p \in Procs : procs[p].pc = "done" /\ procs[p].err = NilErr
    /\ procs["p1"].op = "write" /\ procs["p2"].op = "delete"
    /\ ~began["p1"].pre.present /\ secrets[Name1].present
    /\ secrets[Name1].data = procs["p1"].kv /\ procs["p1"].kv # EmptyKV
    /\ began["p2"].pre.present /\ ~secrets[Name2].present

====
